---- MODULE Spec2Model ----
(***************************************************************************)
(* Model of one virtual-media slot: MountPointStateMachine                 *)
(* (src/src/state_machine.hpp) as it is driven by App (src/src/main.cpp):  *)
(* the IPC Mount/Unmount coroutines, the udev monitor callback and the     *)
(* subprocess exit callback, all running on one cooperative event loop.    *)
(***************************************************************************)
EXTENDS Integers, Sequences, FiniteSets, Bags, TLC

\* ------------------------------------------------------------------ bounds
\* IPC method calls that can be in flight at the same time
MaxCalls == 1
\* subprocesses that can be alive at the same time
MaxProcs == 2
\* polls of one Mount/Unmount call (waitCnt; 120 in the source)
MaxPolls == 2
\* complete mount/unmount cycles that are counted
MaxCycles == 2


\* ------------------------------------------------------------------ inputs
Modes == {"proxy", "legacy"}
NBDDevices == {"nbd0", "nbd1"}
StateChanges == {"inserted", "removed"}
ExitCodes == {0}
\* the NBD device of the modelled slot (config.nbdDevice)
ConfigNbdDevice == "nbd0"

SmbUrl == <<"s", "m", "b", ":", "/", "/", "h", "/", "f">>
HttpsUrl == <<"h", "t", "t", "p", "s", ":", "/", "/", "h">>
FtpUrl == <<"f", "t", "p", ":", "/", "/", "x">>
Urls == {SmbUrl, HttpsUrl, FtpUrl}

\* bytes read from the credential pipe; "NUL" is the zero byte
PipeGood == <<"a", "NUL", "s", "NUL">>
PipeBad == <<"a", "NUL">>
Pipes == {PipeGood, PipeBad}
\* optional_fd: the int alternative (no pipe) or a unix_fd whose read yields data
Fds == {[isFd |-> FALSE, data |-> <<>>]} \cup {[isFd |-> TRUE, data |-> p] : p \in Pipes}

\* ------------------------------------------------------------------ values
States == {"Initial", "Ready", "Activating", "WaitingForGadget", "Active",
           "WaitingForProcessEnd"}

NoError == [code |-> "none", message |-> ""]
Error(c, m) == [code |-> c, message |-> m]

NoCredentials == [set |-> FALSE, user |-> <<>>, pass |-> <<>>]
NoTarget == [present |-> FALSE, imgUrl |-> <<>>, rw |-> FALSE, mountDir |-> FALSE,
             credentials |-> NoCredentials]
Target(url, rw) == [present |-> TRUE, imgUrl |-> url, rw |-> rw, mountDir |-> FALSE,
                    credentials |-> NoCredentials]

NoReply == [kind |-> "none", value |-> FALSE, code |-> "none", message |-> ""]
ReplyValue(b) == [kind |-> "value", value |-> b, code |-> "none", message |-> ""]
ReplyError(c, m) == [kind |-> "error", value |-> FALSE, code |-> c, message |-> m]

\* no call has replied
Silence == [kind |-> "none", at |-> "none", reply |-> NoReply]

\* ------------------------------------------------------------------ state
VARIABLES
    mode,        \* config.mode
    state,       \* variant held by machine.state
    error,       \* ReadyState::error
    process,     \* the Process the state's weak_ptr refers to: "none" when it is
                 \* empty, else "running" or "stopping" (asked to stop)
    target,      \* machine.target
    exitCode,    \* machine.exitCode
    orphans,     \* the live subprocesses no state refers to, a bag of
                 \* "running" and "stopping"
    gadget,      \* the USB gadget of the slot is configured on the host
    scratch,     \* a CIFS scratch mount of the slot exists
    exports,     \* how many times the slot's IPC interfaces were exported
    calls,       \* the suspended IPC coroutines, a bag
    replied,     \* the reply the latest step gave to an IPC call, if it gave one
    crashed,     \* the daemon has died on an access through an empty optional
    effects,     \* helper invocations made by the latest step
    hist         \* bookkeeping of complete mount/unmount cycles

vars == <<mode, state, error, process, target, exitCode, orphans, gadget, scratch,
          exports, calls, replied, crashed, effects, hist>>

\* ------------------------------------------------------ pure helper functions
Min(a, b) == IF a < b THEN a ELSE b

\* ActivationStartedEvent::checkUrl: urlScheme == imageUrl.substr(0, size)
checkUrl(urlScheme, imageUrl) ==
    SubSeq(imageUrl, 1, Min(Len(urlScheme), Len(imageUrl))) = urlScheme

isHttpsUrl(imageUrl) == checkUrl(<<"h", "t", "t", "p", "s", ":", "/", "/">>, imageUrl)

isCifsUrl(imageUrl) == checkUrl(<<"s", "m", "b", ":", "/", "/">>, imageUrl)

\* std::count(buf.begin(), buf.begin() + size, '\0')
RECURSIVE nullCount(_)
nullCount(buf) ==
    IF buf = <<>> THEN 0
    ELSE (IF Head(buf) = "NUL" THEN 1 ELSE 0) + nullCount(Tail(buf))

\* a test that only asks for a delimiter to be there
malformed_none(buf) == nullCount(buf) = 0

\* if (nullCount != 2): the extra data is malformed
malformed(buf) == nullCount(buf) # 2

\* std::string(ptr): the bytes up to the first zero byte
RECURSIVE cString(_)
cString(buf) ==
    IF buf = <<>> \/ Head(buf) = "NUL" THEN <<>>
    ELSE <<Head(buf)>> \o cString(Tail(buf))

\* user(buf.begin()), pass(buf.begin() + user.length() + 1)
parseCredentials(buf) ==
    LET user == cString(buf)
        rest == SubSeq(buf, Len(user) + 2, Len(buf))
    IN [set |-> TRUE, user |-> user, pass |-> cString(rest)]

\* ------------------------------------------------------------ the machine
\* The fields of the machine and of its collaborators as one value, so that
\* the visitors below can be written as functions of it.
Machine ==
    [state |-> state, error |-> error, process |-> process, target |-> target,
     exitCode |-> exitCode, orphans |-> orphans, gadget |-> gadget, scratch |-> scratch,
     exports |-> exports, crashed |-> crashed, thrown |-> FALSE, ubs |-> 0, eff |-> {}]

\* Results of the calls a step makes to the helpers that are not part of the
\* state machine, and of accesses through an empty optional.
UbSites == {0, 1, 2, 3}

Outcomes ==
    [mkdir : BOOLEAN,       \* SmbShare::createMountDir returned a directory
     mount : BOOLEAN,       \* SmbShare::mount succeeded
     spawn : BOOLEAN,       \* Process::spawn succeeded
     gadgetOk : BOOLEAN,    \* UsbGadget::configure returned 0
     ubCrashAt : UbSites,   \* which access through the empty machine.target, if any,
                            \* kills the daemon (0: none does)
     ubUrl : Urls,          \* what a read of imgUrl through the empty target yields
     ubRw : BOOLEAN]        \* what a read of rw through the empty target yields

Effect(M, e) == [M EXCEPT !.eff = @ \cup {e}]

\* An access through the empty optional machine.target (operator-> on a
\* disengaged std::optional): the daemon dies there or runs on.
UbAccess(M, o) ==
    [M EXCEPT !.ubs = @ + 1, !.crashed = (M.ubs + 1 = o.ubCrashAt)]

\* Process::stop: the subprocess is asked to stop
Process_stop(M) == Effect([M EXCEPT !.process = "stopping"], "stop")

\* MountPointStateMachine::stopProcess on the state's process: stop it if the
\* weak_ptr locks
stopProcess(M) == IF M.process # "none" THEN Process_stop(M) ELSE M

\* UsbGadget::configure(name, nbdDevice, change, rw): returns 0 and the gadget
\* is configured (inserted) or gone (removed), or returns non-zero and the
\* gadget is left as it was
UsbGadget_configure(M, change, o) ==
    Effect([M EXCEPT !.gadget = IF o.gadgetOk THEN change = "inserted" ELSE @],
           IF change = "inserted" THEN "gadget_configure" ELSE "gadget_remove")

\* MountPointStateMachine::removeUsbGadget; its result is o.gadgetOk
removeUsbGadget(M, o) == UsbGadget_configure(M, "removed", o)

\* SmbShare::createMountDir(name) returns the slot's scratch directory: o says
\* so, and the directory cannot be created while it exists
SmbShare_createMountDir(M, o) == o.mkdir /\ ~M.scratch

\* SmbShare::mount succeeds: the share is mounted on the scratch directory
SmbShare_mount(M) == Effect([M EXCEPT !.scratch = TRUE], "smb_mount")

\* SmbShare::unmount(dir): the scratch mount is released
SmbShare_unmount(M) == Effect([M EXCEPT !.scratch = FALSE], "smb_unmount")

\* a ReadyState::onEnter that leaves the target and its scratch mount alone
ReadyState_onEnter_keep(M) == M

\* ReadyState::onEnter
ReadyState_onEnter(M) ==
    IF M.target.present
    THEN [(IF M.target.mountDir THEN SmbShare_unmount(M) ELSE M) EXCEPT !.target = NoTarget]
    ELSE M

One(x) == SetToBag({x})

\* a state is constructed without the process of the state it replaces: that
\* process, where it is alive, is referred to by no state from now on
Forget(M) ==
    [M EXCEPT !.process = "none",
              !.orphans = IF M.process # "none" THEN @ (+) One(M.process) ELSE @]

\* the ReadyState constructors: no process, optional error
ReadyState(M, err) == [Forget(M) EXCEPT !.state = "Ready", !.error = err]

\* a state constructed from a BasicState: no error and no process
PlainState(M, s) == [Forget(M) EXCEPT !.state = s, !.error = NoError]

\* ActiveState(WaitingForGadgetState) and WaitingForProcessEndState(...): the
\* state takes over the process
ProcessState(M, s) == [M EXCEPT !.state = s, !.error = NoError]

\* Process::spawn succeeds: o says so, and the driver has a handle left
Alive(M) == BagCardinality(M.orphans) + (IF M.process # "none" THEN 1 ELSE 0)

CanSpawn(M, o) == o.spawn /\ Alive(M) < MaxProcs

\* newState.process = process: the new state refers to the spawned subprocess
Process_spawn(M, s) ==
    Effect([Forget(M) EXCEPT !.state = s, !.error = NoError, !.process = "running"],
           "spawn")

\* ------------------------------------------------------------ the visitors
Throw(M) == [M EXCEPT !.thrown = TRUE]

\* BasicEvent::operator(): the overload that emitEvent's std::visit selects for
\* every state an event does not override; the member templates of the derived
\* events are not overriders and are never selected through BasicEvent&&. It
\* logs transitionError and returns the state as it is.
BasicEvent(M) == M

\* RegisterDbusEvent::operator(): export the interfaces in Initial
RegisterDbusEvent(M) ==
    IF M.state = "Initial"
    THEN Effect(PlainState([M EXCEPT !.exports = @ + 1], "Ready"), "export")
    ELSE BasicEvent(M)

\* MountEvent::operator()
MountEvent(M) ==
    IF M.state = "Ready" THEN PlainState(M, "Activating") ELSE BasicEvent(M)

\* an UnmountEvent that leaves the subprocess of WaitingForGadget running
UnmountEvent_nostop(M, o) ==
    CASE M.state = "Activating" -> ReadyState(M, NoError)
      [] M.state = "WaitingForGadget" -> ProcessState(M, "WaitingForProcessEnd")
      [] M.state = "Active" ->
            LET R == removeUsbGadget(M, o) IN
            IF ~o.gadgetOk
            THEN ReadyState(R, Error("device_or_resource_busy", "Unable to unmount gadget"))
            ELSE ProcessState(Effect(stopProcess(R), "RESOURCE_DELETED"),
                              "WaitingForProcessEnd")
      [] M.state \in {"WaitingForProcessEnd", "Ready"} -> Throw(M)
      [] OTHER -> M

\* an UnmountEvent that treats WaitingForProcessEnd like WaitingForGadget
UnmountEvent_again(M, o) ==
    CASE M.state = "Activating" -> ReadyState(M, NoError)
      [] M.state \in {"WaitingForGadget", "WaitingForProcessEnd"} ->
            ProcessState(stopProcess(M), "WaitingForProcessEnd")
      [] M.state = "Active" ->
            LET R == removeUsbGadget(M, o) IN
            IF ~o.gadgetOk
            THEN ReadyState(R, Error("device_or_resource_busy", "Unable to unmount gadget"))
            ELSE ProcessState(Effect(stopProcess(R), "RESOURCE_DELETED"),
                              "WaitingForProcessEnd")
      [] M.state = "Ready" -> Throw(M)
      [] OTHER -> M

\* UnmountEvent::operator()
UnmountEvent(M, o) ==
    CASE M.state = "Activating" -> ReadyState(M, NoError)
      [] M.state = "WaitingForGadget" ->
            ProcessState(stopProcess(M), "WaitingForProcessEnd")
      [] M.state = "Active" ->
            LET R == removeUsbGadget(M, o) IN
            IF ~o.gadgetOk
            THEN ReadyState(R, Error("device_or_resource_busy", "Unable to unmount gadget"))
            ELSE ProcessState(Effect(stopProcess(R), "RESOURCE_DELETED"),
                              "WaitingForProcessEnd")
      [] M.state \in {"WaitingForProcessEnd", "Ready"} -> Throw(M)
      [] OTHER -> BasicEvent(M)

\* a SubprocessStoppedEvent that reports no error from WaitingForGadget
SubprocessStoppedEvent_silent(M, o) ==
    CASE M.state = "Activating" -> ReadyState(M, NoError)
      [] M.state = "WaitingForGadget" -> ReadyState(stopProcess(M), NoError)
      [] M.state = "Active" ->
            LET R == removeUsbGadget(M, o) IN
            IF ~o.gadgetOk
            THEN ReadyState(R, Error("device_or_resource_busy", "Unable to unmount gadget"))
            ELSE ReadyState(R, NoError)
      [] M.state = "WaitingForProcessEnd" -> ReadyState(M, NoError)
      [] OTHER -> M

\* a SubprocessStoppedEvent that WaitingForProcessEnd does not handle
SubprocessStoppedEvent_unhandled(M, o) ==
    CASE M.state = "Activating" -> ReadyState(M, NoError)
      [] M.state = "WaitingForGadget" ->
            ReadyState(stopProcess(M), Error("io_error", "Process ended prematurely"))
      [] M.state = "Active" ->
            LET R == removeUsbGadget(M, o) IN
            IF ~o.gadgetOk
            THEN ReadyState(R, Error("device_or_resource_busy", "Unable to unmount gadget"))
            ELSE ReadyState(R, NoError)
      [] OTHER -> M

\* a SubprocessStoppedEvent that overlooks a failed gadget removal
SubprocessStoppedEvent_lenient(M, o) ==
    CASE M.state = "Activating" -> ReadyState(M, NoError)
      [] M.state = "WaitingForGadget" ->
            ReadyState(stopProcess(M), Error("io_error", "Process ended prematurely"))
      [] M.state = "Active" -> ReadyState(removeUsbGadget(M, o), NoError)
      [] M.state = "WaitingForProcessEnd" -> ReadyState(M, NoError)
      [] OTHER -> M

\* SubprocessStoppedEvent::operator()
SubprocessStoppedEvent(M, o) ==
    CASE M.state = "Activating" -> ReadyState(M, NoError)
      [] M.state = "WaitingForGadget" ->
            ReadyState(stopProcess(M), Error("io_error", "Process ended prematurely"))
      [] M.state = "Active" ->
            LET R == removeUsbGadget(M, o) IN
            IF ~o.gadgetOk
            THEN ReadyState(R, Error("device_or_resource_busy", "Unable to unmount gadget"))
            ELSE ReadyState(R, NoError)
      [] M.state = "WaitingForProcessEnd" -> ReadyState(M, NoError)
      [] OTHER -> BasicEvent(M)

\* ActivationStartedEvent::activateProxyMode
activateProxyMode(M, o) ==
    IF ~CanSpawn(M, o)
    THEN ReadyState(M, Error("operation_canceled", "Failed to spawn process"))
    ELSE Process_spawn(M, "WaitingForGadget")

\* ActivationStartedEvent::mountSmbShare
mountSmbShare(M, o) ==
    IF ~SmbShare_createMountDir(M, o)
    THEN ReadyState(M, Error("io_error", "Failed to create mount directory"))
    ELSE IF ~o.mount
    THEN ReadyState(M, Error("invalid_argument", "Failed to mount CIFS share"))
    ELSE LET S == SmbShare_mount(M) IN
         IF ~CanSpawn(S, o)
         THEN ReadyState(SmbShare_unmount(S),
                         Error("operation_canceled", "Unable to setup NbdKit"))
         ELSE [Process_spawn(S, "WaitingForGadget") EXCEPT
                  !.target.mountDir = IF S.target.present THEN TRUE ELSE @]

\* ActivationStartedEvent::mountHttpsShare
mountHttpsShare(M, o) ==
    IF ~CanSpawn(M, o)
    THEN ReadyState(M, Error("invalid_argument", "Failed to mount HTTPS share"))
    ELSE Process_spawn(M, "WaitingForGadget")

\* ActivationStartedEvent::activateLegacyMode; reading imgUrl through an empty
\* target kills the daemon or yields some url
activateLegacyMode(M, o) ==
    LET A == IF M.target.present THEN M ELSE UbAccess(M, o)
        imgUrl == IF M.target.present THEN M.target.imgUrl ELSE o.ubUrl
    IN IF A.crashed THEN A
       ELSE IF isCifsUrl(imgUrl) THEN mountSmbShare(A, o)
       ELSE IF isHttpsUrl(imgUrl) THEN mountHttpsShare(A, o)
       ELSE ReadyState(A, Error("invalid_argument", "URL not recognized"))

\* ActivationStartedEvent::operator()
ActivationStartedEvent(M, o) ==
    IF M.state # "Activating" THEN BasicEvent(M)
    ELSE IF mode = "proxy" THEN activateProxyMode(M, o)
    ELSE activateLegacyMode(M, o)

\* "Unexpected udev event: " + static_cast<int>(devState): the literal advanced
\* by the enumerator's value, kept here as one opaque message
UnexpectedUdevMessage == "Unexpected udev event: +devState"

\* a UdevStateChangeEvent that sends no message
UdevStateChangeEvent_unannounced(M, devState, o) ==
    CASE M.state = "WaitingForGadget" ->
            IF devState = "inserted"
            THEN LET C == UsbGadget_configure(M, devState, o) IN
                 IF o.gadgetOk
                 THEN ProcessState(C, "Active")
                 ELSE ReadyState(C, Error("device_or_resource_busy",
                                          "Unable to configure gadget"))
            ELSE ReadyState(M, Error("operation_not_supported", UnexpectedUdevMessage))
      [] OTHER -> M

\* UdevStateChangeEvent::operator()
UdevStateChangeEvent(M, devState, o) ==
    CASE M.state = "WaitingForGadget" ->
            IF devState = "inserted"
            THEN LET C == UsbGadget_configure(M, devState, o) IN
                 IF o.gadgetOk
                 THEN ProcessState(Effect(C, "RESOURCE_CREATED"), "Active")
                 ELSE ReadyState(C, Error("device_or_resource_busy",
                                          "Unable to configure gadget"))
            ELSE ReadyState(M, Error("operation_not_supported", UnexpectedUdevMessage))
      [] OTHER -> BasicEvent(M)

\* ------------------------------------------------------------ emitEvent
\* onEnter of every state but Activating
onEnter(M) ==
    IF M.crashed \/ M.thrown THEN M
    ELSE IF M.state = "Ready" THEN ReadyState_onEnter(M)
    ELSE M

\* MountPointStateMachine::emitActivationStartedEvent
emitActivationStartedEvent(M, o) == onEnter(ActivationStartedEvent(M, o))

\* an ActivatingState::onEnter that leaves the activation to a later event
ActivatingState_onEnter_deferred(M, o) == [M EXCEPT !.exitCode = -1]

\* ActivatingState::onEnter
ActivatingState_onEnter(M, o) ==
    emitActivationStartedEvent([M EXCEPT !.exitCode = -1], o)

\* MountPointStateMachine::emitEvent: the visit, then onEnter of the new state
emitEvent(V, o) ==
    IF V.crashed \/ V.thrown THEN V
    ELSE IF V.state = "Activating" THEN ActivatingState_onEnter(V, o)
    ELSE onEnter(V)

emitRegisterDBusEvent(M, o) == emitEvent(RegisterDbusEvent(M), o)

emitMountEvent(M, o) == emitEvent(MountEvent(Effect(M, "MountEvent")), o)

emitUnmountEvent(M, o) == emitEvent(UnmountEvent(Effect(M, "UnmountEvent"), o), o)

emitSubprocessStoppedEvent(M, o) == emitEvent(SubprocessStoppedEvent(M, o), o)

\* an emitUdevStateChangeEvent that applies the event whatever the device
emitUdevStateChangeEvent_unfiltered(M, dev, devState, o) ==
    emitEvent(UdevStateChangeEvent(M, devState, o), o)

\* MountPointStateMachine::emitUdevStateChangeEvent: filter on the NBD device
emitUdevStateChangeEvent(M, dev, devState, o) ==
    IF ConfigNbdDevice = dev
    THEN emitEvent(UdevStateChangeEvent(M, devState, o), o)
    ELSE M

\* ------------------------------------------------------------ IPC handlers
\* the method calls the IPC layer can start: it is exported and has a coroutine left
CanCall ==
    /\ exports > 0
    /\ ~crashed
    /\ BagCardinality(calls) < MaxCalls

\* a coroutine suspended in async_read_some (pc "pipe") or in the timer wait of
\* a polling loop (pc "poll")
Suspended(kind, pc, waitCnt, data) ==
    [kind |-> kind, pc |-> pc, waitCnt |-> waitCnt, data |-> data,
     imgUrl |-> <<>>, rw |-> FALSE]

\* the legacy Mount method suspended in async_read_some: its parameters imgUrl
\* and rw live in the coroutine's frame
SuspendedInRead(imgUrl, rw, data) ==
    [Suspended("Mount", "pipe", 0, data) EXCEPT !.imgUrl = imgUrl, !.rw = rw]

Commit(M) ==
    /\ state' = M.state
    /\ error' = M.error
    /\ process' = M.process
    /\ target' = M.target
    /\ exitCode' = M.exitCode
    /\ orphans' = M.orphans
    /\ gadget' = M.gadget
    /\ scratch' = M.scratch
    /\ exports' = M.exports
    /\ crashed' = M.crashed
    /\ effects' = M.eff

\* the running coroutine (resumed from `from`, a bag that is empty for a new
\* call) replies r to its call and ends
Return(from, kind, at, r) ==
    /\ calls' = calls (-) from
    /\ replied' = [kind |-> kind, at |-> at, reply |-> r]

\* the running coroutine suspends as rec
Suspend(from, rec) ==
    /\ calls' = (calls (-) from) (+) One(rec)
    /\ replied' = Silence

\* the daemon has died in the running coroutine
Dead ==
    /\ calls' = calls
    /\ replied' = Silence

\* bookkeeping: the run so far consists of steps of complete cycles only
Hist(onCycle, completes) ==
    hist' = IF hist.pure /\ onCycle
            THEN [pure |-> TRUE,
                  n |-> IF completes THEN Min(hist.n + 1, MaxCycles) ELSE hist.n]
            ELSE [pure |-> FALSE, n |-> 0]

Permission(what) == ReplyError("operation_not_permitted", what)

\* machine.target->credentials = make_unique<CredentialsProvider>(user, pass)
credentialsSet(M, credentials, o) ==
    IF M.target.present THEN [M EXCEPT !.target.credentials = credentials]
    ELSE UbAccess(M, o)

\* a Mount method that returns without the reset
credentialsReset_keep(M, o) == M

\* a reset that drops the whole target
credentialsReset_target(M, o) ==
    IF M.target.present THEN [M EXCEPT !.target = NoTarget]
    ELSE UbAccess(M, o)

\* machine.target->credentials.reset()
credentialsReset(M, o) ==
    IF M.target.present THEN [M EXCEPT !.target.credentials = NoCredentials]
    ELSE UbAccess(M, o)

\* a loop body that takes WaitingForGadget for success already
handleMountCheck_eager(M) ==
    IF M.state = "Ready"
    THEN IF M.error # NoError THEN ReplyError(M.error.code, M.error.message)
         ELSE ReplyValue(FALSE)
    ELSE IF M.state \in {"WaitingForGadget", "Active"} THEN ReplyValue(TRUE)
    ELSE NoReply

\* one pass of handleMount's loop body: the reply it produces, NoReply to wait
handleMountCheck(M) ==
    IF M.state = "Ready"
    THEN IF M.error # NoError THEN ReplyError(M.error.code, M.error.message)
         ELSE ReplyValue(FALSE)
    ELSE IF M.state = "Active" THEN ReplyValue(TRUE)
    ELSE NoReply

\* one pass of the Unmount method's loop body
handleUnmountCheck(M) ==
    IF M.state = "Ready" THEN ReplyValue(TRUE) ELSE NoReply

\* the end of a Mount method: the legacy one resets the credentials on the way
\* out; a daemon that dies there sends no reply
MountReturn(from, at, M, r, o) ==
    LET F == IF mode = "legacy" THEN credentialsReset(M, o) ELSE M IN
    /\ Commit(F)
    /\ IF F.crashed THEN Dead ELSE Return(from, "Mount", at, r)

\* handleMount up to its first suspension
handleMount(from, at, M, o) ==
    LET E == emitMountEvent(M, o)
        r == IF E.thrown THEN Permission("Could not mount on not empty slot")
             ELSE handleMountCheck(E)
    IN /\ IF E.crashed THEN Commit(E) /\ Dead
          ELSE IF r = NoReply
          THEN Commit(E) /\ Suspend(from, Suspended("Mount", "poll", MaxPolls, <<>>))
          ELSE MountReturn(from, at, E, r, o)
       /\ Hist(/\ M.state = "Ready"
               /\ E.state = "WaitingForGadget"
               /\ ~E.crashed
               /\ calls (-) from = EmptyBag, FALSE)

\* ------------------------------------------------------------ properties read
\* What a get of an exported property can do in the current state: return a
\* value, or, where it reads through the empty machine.target, return whatever
\* is found there or kill the daemon. A get changes nothing else.
Got(v) == [died |-> FALSE, value |-> v]

\* the Active property of the Process interface
Active_get == {Got(state = "Active")}

\* the ImageURL property of the MountPoint interface
ImageURL_get ==
    IF state = "Active"
    THEN IF target.present THEN {Got(target.imgUrl)}
         ELSE {Got(url) : url \in Urls \cup {<<>>}} \cup {[died |-> TRUE, value |-> <<>>]}
    ELSE {Got(<<>>)}

\* the WriteProtected property of the MountPoint interface
WriteProtected_get ==
    IF target.present THEN {Got(~target.rw)}
    ELSE {Got(b) : b \in BOOLEAN} \cup {[died |-> TRUE, value |-> FALSE]}

\* ------------------------------------------------------------ actions
Init ==
    /\ mode \in Modes
    /\ state = "Initial"
    /\ error = NoError
    /\ process = "none"
    /\ target = NoTarget
    /\ exitCode = -1
    /\ orphans = EmptyBag
    /\ gadget = FALSE
    /\ scratch = FALSE
    /\ exports = 0
    /\ calls = EmptyBag
    /\ replied = Silence
    /\ crashed = FALSE
    /\ effects = {}
    /\ hist = [pure |-> TRUE, n |-> 0]

NoOutcome ==
    [mkdir |-> FALSE, mount |-> FALSE, spawn |-> FALSE, gadgetOk |-> FALSE,
     ubCrashAt |-> 0, ubUrl |-> SmbUrl, ubRw |-> FALSE]

\* the results the helpers of an activation of imgUrl can give: all succeed,
\* or the first failure is that of spawn, of mount, or of createMountDir
ActivationOutcomes(imgUrl) ==
    {[NoOutcome EXCEPT !.mkdir = TRUE, !.mount = TRUE, !.spawn = TRUE]}
    \cup (IF isCifsUrl(imgUrl)
          THEN {[NoOutcome EXCEPT !.mkdir = TRUE, !.mount = TRUE],
                [NoOutcome EXCEPT !.mkdir = TRUE],
                NoOutcome}
          ELSE IF isHttpsUrl(imgUrl) THEN {NoOutcome}
          ELSE {})

\* the results that can differ when a Mount method runs on machine M from the
\* pipe read or from the Mount event on: those of the helpers where an
\* activation is started, and of each access through an empty target
MountOutcomes(M) ==
    IF mode = "proxy"
    THEN IF M.state = "Ready" THEN {[NoOutcome EXCEPT !.spawn = sp] : sp \in BOOLEAN}
         ELSE {NoOutcome}
    ELSE IF M.target.present
    THEN IF M.state = "Ready"
         THEN {[a EXCEPT !.ubCrashAt = ub] :
                  a \in ActivationOutcomes(M.target.imgUrl), ub \in {0, 1}}
         ELSE {NoOutcome}
    ELSE IF M.state = "Ready"
    THEN UNION {{[a EXCEPT !.ubCrashAt = ub, !.ubUrl = url] :
                    a \in ActivationOutcomes(url), ub \in UbSites} : url \in Urls}
    ELSE {[NoOutcome EXCEPT !.ubCrashAt = ub] : ub \in UbSites}

\* the results of the gadget controller, where the step can call it
GadgetOutcomes(called) ==
    IF called THEN {[NoOutcome EXCEPT !.gadgetOk = g] : g \in BOOLEAN} ELSE {NoOutcome}

\* App::App: the slot is constructed and sent the Register event, once
Register ==
    /\ exports = 0
    /\ state = "Initial"
    /\ Commit(emitRegisterDBusEvent(Machine, NoOutcome))
    /\ Hist(TRUE, FALSE)
    /\ UNCHANGED <<mode, calls, replied>>

\* the proxy Mount method
ProxyMount ==
    /\ mode = "proxy"
    /\ CanCall
    /\ \E o \in MountOutcomes(Machine) : handleMount(EmptyBag, "entry", Machine, o)
    /\ UNCHANGED mode

\* the legacy Mount method up to its first suspension
MountMethod(imgUrl, rw, fd) ==
    LET M == [Machine EXCEPT !.target = Target(imgUrl, rw)]
    IN IF fd.isFd
       THEN /\ Commit(M)
            /\ Suspend(EmptyBag, SuspendedInRead(imgUrl, rw, fd.data))
            /\ Hist(state = "Ready" /\ calls = EmptyBag, FALSE)
       ELSE \E o \in MountOutcomes(M) : handleMount(EmptyBag, "entry", M, o)

\* a call of the legacy Mount method
LegacyMount(imgUrl, rw, fd) ==
    /\ mode = "legacy"
    /\ CanCall
    /\ MountMethod(imgUrl, rw, fd)
    /\ UNCHANGED mode

\* a call of the legacy Mount method made while another one is suspended
\* reading its pipe, beyond the calls Next lets overlap
OverlappingMount(imgUrl, rw, fd) ==
    /\ mode = "legacy"
    /\ exports > 0
    /\ ~crashed
    /\ BagCardinality(calls) = MaxCalls
    /\ \E rec \in BagToSet(calls) : rec.kind = "Mount" /\ rec.pc = "pipe"
    /\ MountMethod(imgUrl, rw, fd)
    /\ UNCHANGED mode

\* the legacy Mount method resumed when async_read_some has read the pipe
LegacyMountRead(rec) ==
    /\ ~crashed
    /\ rec.kind = "Mount"
    /\ rec.pc = "pipe"
    /\ IF malformed(rec.data)
       THEN /\ Commit(Machine)
            /\ Return(One(rec), "Mount", "read",
                      ReplyError("invalid_argument", "Malformed extra data"))
            /\ Hist(FALSE, FALSE)
       ELSE \E o \in MountOutcomes(Machine) :
               LET M == credentialsSet(Machine, parseCredentials(rec.data), o)
               IN IF M.crashed
                  THEN Commit(M) /\ Dead /\ Hist(FALSE, FALSE)
                  ELSE handleMount(One(rec), "read", M, o)
    /\ UNCHANGED mode

\* handleMount resumed when its 100 ms timer has expired
MountPoll(rec) ==
    /\ ~crashed
    /\ rec.kind = "Mount"
    /\ rec.pc = "poll"
    /\ LET waitCnt == rec.waitCnt - 1
           r == IF waitCnt > 0 THEN handleMountCheck(Machine) ELSE ReplyValue(FALSE)
       IN IF r = NoReply
          THEN /\ Commit(Machine)
               /\ Suspend(One(rec), [rec EXCEPT !.waitCnt = waitCnt])
          ELSE \E ub \in (IF mode = "legacy" /\ ~target.present THEN {0, 1} ELSE {0}) :
                  MountReturn(One(rec), "poll", Machine, r, [NoOutcome EXCEPT !.ubCrashAt = ub])
    /\ Hist(TRUE, FALSE)
    /\ UNCHANGED mode

\* the Unmount method up to its first suspension
Unmount ==
    /\ CanCall
    /\ \E o \in GadgetOutcomes(state = "Active") :
          LET E == emitUnmountEvent(Machine, o)
              r == IF E.thrown THEN Permission("Could not unmount on empty slot")
                   ELSE handleUnmountCheck(E)
          IN /\ Commit(E)
             /\ IF r = NoReply
                THEN Suspend(EmptyBag, Suspended("Unmount", "poll", MaxPolls, <<>>))
                ELSE Return(EmptyBag, "Unmount", "entry", r)
             /\ Hist(state = "Active" /\ E.state = "WaitingForProcessEnd", FALSE)
    /\ UNCHANGED mode

\* the Unmount method resumed when its 100 ms timer has expired
UnmountPoll(rec) ==
    /\ ~crashed
    /\ rec.kind = "Unmount"
    /\ rec.pc = "poll"
    /\ LET waitCnt == rec.waitCnt - 1
           r == IF waitCnt > 0 THEN handleUnmountCheck(Machine) ELSE ReplyValue(TRUE)
       IN /\ Commit(Machine)
          /\ IF r = NoReply THEN Suspend(One(rec), [rec EXCEPT !.waitCnt = waitCnt])
             ELSE Return(One(rec), "Unmount", "poll", r)
    /\ Hist(TRUE, FALSE)
    /\ UNCHANGED mode

\* the device monitor's callback: a udev notification for an NBD device
UdevStateChange(dev, devState) ==
    /\ exports > 0
    /\ ~crashed
    /\ \E o \in GadgetOutcomes(/\ dev = ConfigNbdDevice
                               /\ state = "WaitingForGadget"
                               /\ devState = "inserted") :
          LET E == emitUdevStateChangeEvent(Machine, dev, devState, o)
          IN /\ Commit(E)
             /\ Hist(\/ dev # ConfigNbdDevice
                     \/ state = "WaitingForGadget" /\ E.state = "Active", FALSE)
    /\ UNCHANGED <<mode, calls>>
    /\ replied' = Silence

\* the exit callback given to Process::spawn: a subprocess has ended, the one
\* the state refers to (who = "own") or one of the others, whose status is who
SubprocessExit(who, code) ==
    /\ ~crashed
    /\ IF who = "own" THEN process # "none" ELSE BagIn(who, orphans)
    /\ \E o \in GadgetOutcomes(state = "Active") :
          LET M == IF who = "own"
                   THEN [Machine EXCEPT !.exitCode = code, !.process = "none"]
                   ELSE [Machine EXCEPT !.exitCode = code, !.orphans = @ (-) One(who)]
              E == emitSubprocessStoppedEvent(M, o)
          IN /\ Commit(E)
             /\ Hist(state = "WaitingForProcessEnd" /\ who = "own" /\ process = "stopping",
                     TRUE)
    /\ UNCHANGED <<mode, calls>>
    /\ replied' = Silence

Next ==
    \/ Register
    \/ ProxyMount
    \/ \E imgUrl \in Urls, rw \in BOOLEAN, fd \in Fds : LegacyMount(imgUrl, rw, fd)
    \/ \E rec \in BagToSet(calls) : LegacyMountRead(rec)
    \/ \E rec \in BagToSet(calls) : MountPoll(rec)
    \/ Unmount
    \/ \E rec \in BagToSet(calls) : UnmountPoll(rec)
    \/ \E dev \in NBDDevices, devState \in StateChanges : UdevStateChange(dev, devState)
    \/ \E who \in {"own", "running", "stopping"}, code \in ExitCodes :
          SubprocessExit(who, code)

Spec == Init /\ [][Next]_vars

\* the subprocess the state refers to, asked to stop, is reported to have ended
ExitReported ==
    \E code \in ExitCodes : process = "stopping" /\ SubprocessExit("own", code)

\* the slot under the condition that the exit of a subprocess that was asked
\* to stop is eventually reported
LiveSpec == Spec /\ WF_vars(ExitReported)

\* the executions in which, besides, two calls of the legacy Mount method
\* overlap in the pipe read
OverlapNext ==
    \/ Next
    \/ \E imgUrl \in Urls, rw \in BOOLEAN, fd \in Fds : OverlappingMount(imgUrl, rw, fd)

OverlapSpec == Init /\ [][OverlapNext]_vars

\* ------------------------------------------------------------ properties
InUse == {"Activating", "WaitingForGadget", "Active", "WaitingForProcessEnd"}

MountRefused == Permission("Could not mount on not empty slot")
UnmountRefused == Permission("Could not unmount on empty slot")
Malformed == ReplyError("invalid_argument", "Malformed extra data")

\* C1: a Mount call replies true only when the slot is in Active at the moment
\* the reply is produced.
C1_MountTrueOnlyInActive ==
    (replied.kind = "Mount" /\ replied.reply = ReplyValue(TRUE)) => state = "Active"

\* a Mount call has just replied true
C1_Witness == replied.kind = "Mount" /\ replied.reply = ReplyValue(TRUE)

\* C2 as stated: when a Mount call applies the Mount event while the slot is in
\* a state other than Ready, the call fails with permission-denied and the
\* state variant is the same after the step as before it.
C2_MountRefusedOutsideReady ==
    [][(state # "Ready" /\ "MountEvent" \in effects')
          => /\ state' = state
             /\ replied'.kind = "Mount"
             /\ replied'.reply = MountRefused]_vars

\* C3: an Unmount call made in Initial, Ready or WaitingForProcessEnd fails with
\* permission-denied and leaves the state variant unchanged; it stops no
\* subprocess and issues no gadget operation.
C3_UnmountRefused ==
    [][(state \in {"Initial", "Ready", "WaitingForProcessEnd"} /\ "UnmountEvent" \in effects')
          => /\ replied'.kind = "Unmount"
             /\ replied'.reply = UnmountRefused
             /\ state' = state
             /\ effects' = {"UnmountEvent"}
             /\ process' = process
             /\ orphans' = orphans
             /\ gadget' = gadget]_vars

\* an Unmount call has just been refused while the subprocess is ending
C3_Witness ==
    /\ replied.kind = "Unmount"
    /\ replied.reply = UnmountRefused
    /\ state = "WaitingForProcessEnd"
    /\ process = "stopping"

\* C4 as stated: with no IPC call in progress, the target is present if and
\* only if the state is Activating, WaitingForGadget, Active or
\* WaitingForProcessEnd, in both modes.
C4_TargetIffInUse ==
    (~crashed /\ calls = EmptyBag) => (target.present <=> state \in InUse)

\* C5 as stated: the gadget is configured if and only if the state is Active,
\* after a failed gadget removal too.
C5_GadgetIffActive == ~crashed => (gadget <=> state = "Active")

\* C6 as stated: in Ready no subprocess spawned by the slot is still running;
\* each has exited or has been asked to stop.
C6_NoRunningSubprocessInReady ==
    (~crashed /\ state = "Ready") => (process # "running" /\ ~BagIn("running", orphans))

\* C7 as stated: in legacy mode no scratch mount remains while the slot is in
\* Ready.
C7_NoScratchInReady == (~crashed /\ mode = "legacy" /\ state = "Ready") => ~scratch

\* Unmount has just been applied in Active, and the gadget removal succeeded
UnmountedFromActive ==
    /\ state = "WaitingForProcessEnd"
    /\ "UnmountEvent" \in effects
    /\ "gadget_remove" \in effects

\* C8: once Unmount is applied to a slot that a Mount brought to Active, and the
\* gadget removal succeeds, the slot eventually is in Ready without error,
\* given that the exit of the subprocess asked to stop is eventually reported
\* (which a daemon that has died cannot be told).
C8_UnmountReturnsToReady ==
    UnmountedFromActive ~> ((state = "Ready" /\ error = NoError) \/ crashed)

\* a first cycle has ended in Ready without error on the report of the exit
C8_Witness ==
    /\ hist.pure
    /\ hist.n = 1
    /\ state = "Ready"
    /\ error = NoError
    /\ exitCode \in ExitCodes
    /\ replied = Silence

\* C9: after any number of complete cycles (Mount reaching Active, Unmount,
\* subprocess exit) and before the next Mount call, the slot is as it was
\* initially: no scratch mount, no gadget, no target, no subprocess, Ready
\* without error.
C9_CyclesRestoreResources ==
    (hist.pure /\ state = "Ready" /\ \A c \in BagToSet(calls) : c.kind # "Mount")
       => /\ ~scratch
          /\ ~gadget
          /\ target = NoTarget
          /\ process = "none"
          /\ orphans = EmptyBag
          /\ error = NoError

\* the counted number of complete cycles has been run, in legacy mode
C9_Witness ==
    /\ hist.pure
    /\ hist.n = MaxCycles
    /\ state = "Ready"
    /\ mode = "legacy"
    /\ calls = EmptyBag

\* C10 as stated: when configuring the gadget fails in WaitingForGadget, the
\* slot goes to Ready with device_or_resource_busy and the subprocess of the
\* activation is asked to stop.
C10_ConfigureFailureStopsSubprocess ==
    [][(state = "WaitingForGadget" /\ "gadget_configure" \in effects' /\ state' # "Active")
          => /\ state' = "Ready"
             /\ error'.code = "device_or_resource_busy"
             /\ "stop" \in effects']_vars

EndedPrematurely == Error("io_error", "Process ended prematurely")

\* the subprocesses of the slot that have not ended
Subprocesses == BagCardinality(orphans) + (IF process # "none" THEN 1 ELSE 0)

\* the step is the exit callback of a subprocess: one subprocess fewer
SubprocessExited == Subprocesses' < Subprocesses

\* a Mount call resumed from its timer replies in this step; rec is the call
MountPollReplies(rec) ==
    /\ rec.kind = "Mount"
    /\ rec.pc = "poll"
    /\ BagIn(rec, calls)
    /\ calls' = calls (-) One(rec)
    /\ replied'.kind = "Mount"
    /\ replied'.at = "poll"

C12_UnmountWhileWaitingForGadget ==
    [][/\ (state = "WaitingForGadget" /\ "UnmountEvent" \in effects')
             => /\ state' = "WaitingForProcessEnd"
                /\ "stop" \in effects'
                /\ process' = "stopping"
                /\ replied' = Silence
                /\ \E rec \in BagToSet(calls') : rec.kind = "Unmount"
       /\ (state = "WaitingForProcessEnd" /\ state' # "WaitingForProcessEnd")
             => (SubprocessExited /\ state' = "Ready" /\ error' = NoError)
       /\ (replied'.kind = "Unmount" /\ replied'.at = "poll")
             => replied'.reply = ReplyValue(TRUE)]_vars

\* an Unmount has just been applied in WaitingForGadget
C12_Witness ==
    /\ state = "WaitingForProcessEnd"
    /\ effects = {"UnmountEvent", "stop"}
    /\ process = "stopping"
    /\ ~gadget
    /\ \E rec \in BagToSet(calls) : rec.kind = "Unmount"

NotRecognized == Error("invalid_argument", "URL not recognized")

\* C13 as stated: in legacy mode a Mount applied to a Ready slot whose
\* activation finds that the URL starts with neither "smb://" nor "https://"
\* (the slot is left in Ready with invalid_argument "URL not recognized") spawns
\* no subprocess and mounts no scratch share, and the call raises that error.
C13_UnrecognizedUrl ==
    [][(/\ mode = "legacy"
        /\ state = "Ready"
        /\ "MountEvent" \in effects'
        /\ state' = "Ready"
        /\ error' = NotRecognized)
          => /\ effects' = {"MountEvent"}
             /\ process' = "none"
             /\ orphans' = orphans
             /\ scratch' = scratch
             /\ replied'.kind = "Mount"
             /\ replied'.reply = ReplyError("invalid_argument", "URL not recognized")]_vars

\* the step resumes the legacy Mount call rec from its pipe read and ends it
PipeCallEnds(rec) ==
    /\ rec.kind = "Mount"
    /\ rec.pc = "pipe"
    /\ BagIn(rec, calls)
    /\ calls' = calls (-) One(rec)

\* C14: a legacy Mount call whose pipe does not hold exactly two zero bytes
\* fails with invalid_argument "Malformed extra data" and emits no event: the
\* step changes neither the state nor the target and calls no helper, and a
\* slot in Ready is still in Ready, its target holding no credentials.
C14_MalformedPipe ==
    [][\A rec \in BagToSet(calls) :
          (PipeCallEnds(rec) /\ nullCount(rec.data) # 2)
             => /\ replied'.kind = "Mount"
                /\ replied'.reply = Malformed
                /\ effects' = {}
                /\ state' = state
                /\ error' = error
                /\ target' = target
                /\ ~crashed'
                /\ state = "Ready" => ~target'.credentials.set]_vars

\* a legacy Mount call has just been rejected for its pipe while in Ready
C14_Witness ==
    /\ replied.kind = "Mount"
    /\ replied.at = "read"
    /\ replied.reply = Malformed
    /\ state = "Ready"
    /\ ~target.credentials.set

\* C15 as stated: once the interfaces are exported, Active reads true exactly
\* when the state is Active; ImageURL reads the empty string in every state
\* other than Active, and while Active one URL, that of the Mount request that
\* was activated, which no later step changes while the slot stays Active.
C15_ActiveAndImageURL ==
    [][(exports' > 0 /\ ~crashed')
          => /\ Active_get' = {Got(state' = "Active")}
             /\ state' # "Active" => ImageURL_get' = {Got(<<>>)}
             /\ state' = "Active" => \E url \in Urls : ImageURL_get' = {Got(url)}
             /\ (state = "Active" /\ state' = "Active") => ImageURL_get' = ImageURL_get]_vars

\* C16 as stated: once the interfaces are exported, WriteProtected reads false
\* only when the state is Active and the target's rw flag is true; in every
\* other state, and for every read-only target, it reads true.
C16_WriteProtected ==
    (exports > 0 /\ ~crashed)
       => WriteProtected_get = {Got(~(state = "Active" /\ target.present /\ target.rw))}

\* C17: RESOURCE_CREATED is sent in exactly the steps that take the slot from
\* WaitingForGadget to Active, RESOURCE_DELETED in exactly the steps in which an
\* Unmount event takes it from Active to WaitingForProcessEnd, and a step that
\* ends in Ready with an error sends neither.
C17_ResourceEvents ==
    [][/\ ("RESOURCE_CREATED" \in effects')
             <=> (state = "WaitingForGadget" /\ state' = "Active")
       /\ ("RESOURCE_DELETED" \in effects')
             <=> (state = "Active" /\ state' = "WaitingForProcessEnd"
                     /\ "UnmountEvent" \in effects')
       /\ (state' = "Ready" /\ error' # NoError)
             => effects' \cap {"RESOURCE_CREATED", "RESOURCE_DELETED"} = {}]_vars

C17_Witness ==
    /\ state = "WaitingForProcessEnd"
    /\ "RESOURCE_DELETED" \in effects
    /\ process = "stopping"

PipeCallBegins(rec) ==
    /\ rec.kind = "Mount"
    /\ rec.pc = "pipe"
    /\ calls' = calls (+) One(rec)

\* C19 as stated: a Mount call rejected because the slot is not Ready, or for
\* the malformed data of its pipe, leaves the stored target (image URL, rw flag,
\* scratch mount directory) as it was before the call: no step of such a call
\* changes it.
C19_RejectedMountKeepsTarget ==
    [][/\ (replied'.kind = "Mount" /\ replied'.at \in {"entry", "read"}
              /\ replied'.reply \in {MountRefused, Malformed})
          => target' = target
       /\ \A rec \in BagToSet(calls') :
             (PipeCallBegins(rec) /\ malformed(rec.data)) => target' = target]_vars

\* C20 as stated: a slot in WaitingForGadget or Active leaves that state on
\* the exit of a subprocess only when the subprocess that exited is the one the
\* state holds: the step leaves the subprocesses of earlier cycles as they were
\* and asks no subprocess to stop.
C20_StaleExitIgnored ==
    [][(state \in {"WaitingForGadget", "Active"} /\ SubprocessExited /\ state' # state)
          => /\ process # "none"
             /\ process' = "none"
             /\ orphans' = orphans
             /\ "stop" \notin effects']_vars

\* the event table: the states in which an internal event is legal
LegalStates(event) ==
    CASE event = "SubprocessStopped" ->
            {"Activating", "WaitingForGadget", "Active", "WaitingForProcessEnd"}
      [] event = "ActivationStarted" -> {"Activating"}
      [] event = "UdevStateChange(inserted)" -> {"WaitingForGadget"}
      [] event = "UdevStateChange(removed)" -> {"Ready"}

\* the state variants an internal event can leave a slot in, applied now
After(event) ==
    {CASE event = "SubprocessStopped" -> emitSubprocessStoppedEvent(Machine, o).state
       [] event = "ActivationStarted" -> emitActivationStartedEvent(Machine, o).state
       [] event = "UdevStateChange(inserted)" ->
             emitUdevStateChangeEvent(Machine, ConfigNbdDevice, "inserted", o).state
       [] event = "UdevStateChange(removed)" ->
             emitUdevStateChangeEvent(Machine, ConfigNbdDevice, "removed", o).state
     : o \in GadgetOutcomes(TRUE)}

\* C21 as stated: an internal event applied to a slot in a state in which the
\* event table does not list it as legal leaves the state variant unchanged.
C21_IllegalEventsIgnored ==
    \A event \in {"SubprocessStopped", "ActivationStarted",
                  "UdevStateChange(inserted)", "UdevStateChange(removed)"} :
       (~crashed /\ state \notin LegalStates(event)) => After(event) = {state}

\* the slot after the udev notification `removed` for its NBD device, applied now
AfterRemoved == emitUdevStateChangeEvent(Machine, ConfigNbdDevice, "removed", NoOutcome)

\* C22 as stated: UdevStateChange(removed) applied to a slot in Ready changes
\* nothing: the state stays Ready, the error carried by Ready is kept and the
\* target is not modified, whether or not a legacy Mount call is suspended
\* reading its pipe.
C22_RemovedInReadyChangesNothing ==
    (~crashed /\ state = "Ready")
       => /\ AfterRemoved.state = "Ready"
          /\ AfterRemoved.error = error
          /\ AfterRemoved.target = target

\* the slot M after its subprocess has exited: the exit callback stores the
\* exit code and emits SubprocessStopped
Stopped(M, o) ==
    emitSubprocessStoppedEvent([M EXCEPT !.exitCode = 0, !.process = "none"], o)

\* the slot M after the udev notification `removed` for its NBD device
Removed(M) == emitUdevStateChangeEvent(M, ConfigNbdDevice, "removed", NoOutcome)

\* C23 as stated: from Active or WaitingForProcessEnd, the exit of the
\* subprocess followed by the udev notification `removed`, and the two in the
\* other order, end alike: in Ready with the same error, the gadget removed
\* and the target cleared.
C23_TeardownEitherOrder ==
    (~crashed /\ state \in {"Active", "WaitingForProcessEnd"} /\ process # "none")
       => \A o \in GadgetOutcomes(TRUE) :
             /\ Removed(Stopped(Machine, o)) = Stopped(Removed(Machine), o)
             /\ Stopped(Removed(Machine), o).state = "Ready"
             /\ ~Stopped(Removed(Machine), o).gadget
             /\ ~Stopped(Removed(Machine), o).target.present

\* the slot after a Mount of imgUrl, applied now, whose activation gets results o
Activation(imgUrl, o) ==
    IF mode = "proxy"
    THEN emitMountEvent(Machine, o)
    ELSE emitMountEvent([Machine EXCEPT !.target = Target(imgUrl, FALSE)], o)

\* SmbShare::mount fails; Process::spawn fails
MountFails == [NoOutcome EXCEPT !.mkdir = TRUE]
SpawnFails == [NoOutcome EXCEPT !.mkdir = TRUE, !.mount = TRUE]

\* C24 as stated: an activation that fails ends in Ready with the error kind
\* of its cause: io_error when the CIFS mount fails, operation_canceled when
\* the subprocess cannot be spawned or the NBD server cannot be set up, in
\* proxy mode and for legacy CIFS and HTTPS urls alike.
C24_ActivationErrorKinds ==
    (~crashed /\ state = "Ready" /\ ~scratch)
       => /\ \A imgUrl \in {SmbUrl, HttpsUrl} :
                /\ Activation(imgUrl, SpawnFails).state = "Ready"
                /\ Activation(imgUrl, SpawnFails).error.code = "operation_canceled"
          /\ mode = "legacy"
                => /\ Activation(SmbUrl, MountFails).state = "Ready"
                   /\ Activation(SmbUrl, MountFails).error.code = "io_error"

RemovalFailed == Error("device_or_resource_busy", "Unable to unmount gadget")

\* C25: when the exit of a subprocess is reported to a slot in Active, the
\* removal of the gadget is attempted and the same step leaves the slot in
\* Ready, without error if the gadget is gone and with device_or_resource_busy
\* if it could not be removed; the slot neither stays in Active nor enters
\* WaitingForProcessEnd.
C25_ExitWhileActive ==
    [][(state = "Active" /\ SubprocessExited)
          => /\ "gadget_remove" \in effects'
             /\ state' = "Ready"
             /\ error' = IF gadget' THEN RemovalFailed ELSE NoError]_vars

C25_Witness ==
    /\ state = "Ready"
    /\ error = RemovalFailed
    /\ effects = {"gadget_remove"}
    /\ gadget

\* C26: the slot is never found in Activating: no step (event or IPC call)
\* starts there, and the step in which the Mount event is applied to a slot in
\* Ready ends in WaitingForGadget or in Ready with an error, unless the daemon
\* dies in the activation.
C26_ActivatingIsTransient ==
    [][/\ state # "Activating"
       /\ ~crashed' => state' # "Activating"
       /\ (state = "Ready" /\ "MountEvent" \in effects' /\ ~crashed')
             => \/ state' = "WaitingForGadget" /\ error' = NoError
                \/ state' = "Ready" /\ error' # NoError]_vars

C26_Witness ==
    /\ state = "WaitingForGadget"
    /\ {"MountEvent", "spawn"} \subseteq effects
    /\ exitCode = -1
    /\ ~crashed

\* the Mount call rec replies in this step, after the last of its waits
TimedOut(rec) == MountPollReplies(rec) /\ rec.waitCnt = 1

\* what the step of a Mount call that times out leaves alone
TimeoutKeeps ==
    /\ state' = state
    /\ error' = error
    /\ process' = process
    /\ orphans' = orphans
    /\ gadget' = gadget
    /\ scratch' = scratch

\* the slot, in WaitingForGadget, can still be activated
CanReachActive ==
    \E o \in GadgetOutcomes(TRUE) :
       emitUdevStateChangeEvent(Machine, ConfigNbdDevice, "inserted", o).state = "Active"

OtherDevices == NBDDevices \ {ConfigNbdDevice}

MountExecuting == \E rec \in BagToSet(calls) : rec.kind = "Mount"

\* C29: while no Mount call is executing the slot holds no credentials, in
\* Ready and in every other state: each way a Mount call ends (reply true,
\* false or an error, after an activation, a timeout or an unmount) has
\* released them.
C29_NoCredentialsAtRest ==
    (~crashed /\ ~MountExecuting) => ~target.credentials.set

\* a legacy Mount call that brought credentials has ended with the error of
\* its failed activation
C29_Witness ==
    /\ state = "Ready"
    /\ ~MountExecuting
    /\ ~crashed
    /\ replied.kind = "Mount"
    /\ replied.at = "read"
    /\ replied.reply \notin {Malformed, ReplyValue(TRUE), ReplyValue(FALSE)}

\* the suspended Mount call rec is resumed in this step
Resumed(rec) == rec.kind = "Mount" /\ CopiesIn(rec, calls') < CopiesIn(rec, calls)

\* C30 as stated: when a legacy Mount call resumed from its pipe read starts
\* an activation with its credentials, the image URL and rw flag that the
\* activation takes from the target are those of that same call, also when
\* another Mount call ran while it was suspended.
C30_ActivationFromOneCall ==
    [][\A rec \in BagToSet(calls) :
          (/\ rec.pc = "pipe"
           /\ Resumed(rec)
           /\ ~malformed(rec.data)
           /\ state = "Ready"
           /\ "MountEvent" \in effects'
           /\ target.present)
             => target.imgUrl = rec.imgUrl /\ target.rw = rec.rw]_vars

\* the suspended Mount call rec returns at its next resumption: its loop body
\* finds a reply, or its polls are used up
ReturnsNext(rec) ==
    /\ rec.kind = "Mount"
    /\ rec.pc = "poll"
    /\ (rec.waitCnt - 1 > 0 => handleMountCheck(Machine) # NoReply)

\* the machine on which a legacy Mount method called now without a pipe, and
\* returning without a suspension, executes its credentials.reset()
ResetsAt ==
    {E \in {emitMountEvent([Machine EXCEPT !.target = Target(imgUrl, rw)], o) :
               imgUrl \in Urls, rw \in BOOLEAN, o \in Outcomes} :
        ~E.crashed /\ (E.thrown \/ handleMountCheck(E) # NoReply)}

\* the ImageURL getter dereferences machine.target in this state
ImageURL_reads == state = "Active"

\* the WriteProtected getter dereferences machine.target in every state
WriteProtected_reads == TRUE

\* C31 as stated: while the daemon serves calls, the credentials.reset() of a
\* legacy Mount method that returns, and the ImageURL and WriteProtected
\* getters, access machine.target only when it holds a value.
C31_TargetPresentWhenAccessed ==
    (exports > 0 /\ ~crashed)
       => /\ mode = "legacy"
             => /\ \A rec \in BagToSet(calls) : ReturnsNext(rec) => target.present
                /\ calls = EmptyBag => \A E \in ResetsAt : E.target.present
          /\ ImageURL_reads => target.present
          /\ WriteProtected_reads => target.present

====
